---- MODULE Spec2Model ----
(***************************************************************************)
(* CovidDashboard.py: the start-up pipeline (read_csv, fillna, the two     *)
(* rates, groupby/agg, to_csv, the dropdown options, the layout) and the   *)
(* one Dash callback update_charts with its six chart builders.            *)
(*                                                                         *)
(* A DataFrame is a sequence of rows (records); a float is an exact        *)
(* fraction [n, d] in lowest terms (d = 0 is NaN/inf); a Plotly figure is  *)
(* the record of what it plots.                                            *)
(***************************************************************************)
EXTENDS Integers, Sequences, FiniteSets, TLC

VARIABLES
    csv,                \* the table behind url, as read_csv parses it
    data,               \* the module global `data`
    grouped_data,       \* the module global `grouped_data`
    cleaned_file,       \* cleaned_covid19_data.csv
    country_options,    \* the module global `country_options` (its values)
    slider_max,         \* max= of death-range-slider
    dropdown,           \* value of country-dropdown
    slider,             \* value of death-range-slider
    filtered,           \* update_charts' local `filtered`, last call
    returned,           \* what the six builders produced, last call
    figures,            \* the figure of the six dcc.Graph components
    pc                  \* position in the script / the running server

vars == <<csv, data, grouped_data, cleaned_file, country_options, slider_max,
          dropdown, slider, filtered, returned, figures, pc>>

----------------------------------------------------------------------------
(* Bounds of the model. *)

\* rows of a small csv table
MaxRaw == 2

\* rows of a wide csv table (more than the 10 of the bar chart)
MaxWide == 12

----------------------------------------------------------------------------
(* Cells. *)

\* a missing numeric cell (NaN); every count of the data set is >= 0
NaN == -1

\* a missing Country/Region or WHO Region cell
KeyNaN == "NaN"

\* the integer 0 that fillna(0) writes into a key cell; no text cell equals it
KeyZero == "0"

\* the sentinel value of the dropdown's 'All' option
All == "all"

CountryNames ==
    <<"Algeria", "Brazil", "Chile", "Denmark", "Egypt", "France", "Ghana",
      "Haiti", "India", "Japan", "Kenya", "Libya", "Mexico", "Nepal">>

RegionNames ==
    <<"Region01", "Region02", "Region03", "Region04", "Region05", "Region06",
      "Region07", "Region08", "Region09", "Region10", "Region11", "Region12",
      "Region13", "Region14">>

\* ascending order of the key values: a number sorts before every string
KeyOrder == <<KeyZero>> \o CountryNames \o RegionNames

KeyRank(k) == CHOOSE i \in 1..Len(KeyOrder) : KeyOrder[i] = k

SumColumns ==
    {"Confirmed", "Deaths", "Recovered", "Active",
     "NewCases", "NewDeaths", "NewRecovered"}

----------------------------------------------------------------------------
(* Floats, as exact fractions. *)

RECURSIVE GCD(_, _)
GCD(a, b) == IF b = 0 THEN a ELSE GCD(b, a % b)

\* n / d for n >= 0, d >= 0; x/0 is inf (1/0) and 0/0 is NaN (0/0)
Frac(n, d) ==
    IF d = 0 THEN [n |-> IF n = 0 THEN 0 ELSE 1, d |-> 0]
    ELSE LET g == GCD(n, d) IN [n |-> n \div g, d |-> d \div g]

FZero == Frac(0, 1)

FIsNaN(x) == x.d = 0 /\ x.n = 0

FAdd(x, y) ==
    IF x.d = 0 THEN x ELSE IF y.d = 0 THEN y
    ELSE Frac(x.n * y.d + y.n * x.d, x.d * y.d)

FDivInt(x, k) == IF x.d = 0 THEN x ELSE Frac(x.n, x.d * k)

FLess(x, y) == x.n * y.d < y.n * x.d

----------------------------------------------------------------------------
(* Lines 11-14: fillna and the two rates. *)

FillCell(v) == IF v = NaN THEN 0 ELSE v

FillKey(k) == IF k = KeyNaN THEN KeyZero ELSE k

\* faulty variant: only the numeric columns are filled
fillna_counts_only(row) ==
    [Country      |-> row.Country,
     WHORegion    |-> row.WHORegion,
     Confirmed    |-> FillCell(row.Confirmed),
     Deaths       |-> FillCell(row.Deaths),
     Recovered    |-> FillCell(row.Recovered),
     Active       |-> FillCell(row.Active),
     NewCases     |-> FillCell(row.NewCases),
     NewDeaths    |-> FillCell(row.NewDeaths),
     NewRecovered |-> FillCell(row.NewRecovered)]

\* data.fillna(0, inplace=True), one row
fillna(row) ==
    [Country      |-> FillKey(row.Country),
     WHORegion    |-> FillKey(row.WHORegion),
     Confirmed    |-> FillCell(row.Confirmed),
     Deaths       |-> FillCell(row.Deaths),
     Recovered    |-> FillCell(row.Recovered),
     Active       |-> FillCell(row.Active),
     NewCases     |-> FillCell(row.NewCases),
     NewDeaths    |-> FillCell(row.NewDeaths),
     NewRecovered |-> FillCell(row.NewRecovered)]

\* (a / b) * 100 on floats; a NaN operand gives NaN
Percent(a, b) ==
    IF a = NaN \/ b = NaN THEN Frac(0, 0) ELSE Frac(a * 100, b)

\* faulty variant: the ratio without the Confirmed > 0 guard
CFROf_unguarded(row) == Percent(row.Deaths, row.Confirmed)

\* np.where(Confirmed > 0, Deaths / Confirmed * 100, 0); NaN > 0 is False
CFROf(row) ==
    IF row.Confirmed > 0 THEN Percent(row.Deaths, row.Confirmed) ELSE FZero

\* np.where(Confirmed > 0, Recovered / Confirmed * 100, 0)
RecoveryRateOf(row) ==
    IF row.Confirmed > 0 THEN Percent(row.Recovered, row.Confirmed) ELSE FZero

WithCFR(row) ==
    [c \in DOMAIN row \cup {"CFR"} |->
        IF c = "CFR" THEN CFROf(row) ELSE row[c]]

WithRecoveryRate(row) ==
    [c \in DOMAIN row \cup {"RecoveryRate"} |->
        IF c = "RecoveryRate" THEN RecoveryRateOf(row) ELSE row[c]]

----------------------------------------------------------------------------
(* Lines 16-26: groupby(['Country/Region', 'WHO Region']).agg(...).        *)

KeyOf(row) == <<row.Country, row.WHORegion>>

KeyLE(k, j) ==
    \/ KeyRank(k[1]) < KeyRank(j[1])
    \/ k[1] = j[1] /\ KeyRank(k[2]) <= KeyRank(j[2])

\* the group keys: a row with a NaN key is in no group (dropna=True)
GroupKeys(rows) ==
    {KeyOf(rows[i]) : i \in {j \in 1..Len(rows) :
        rows[j].Country # KeyNaN /\ rows[j].WHORegion # KeyNaN}}

\* sort=True: the groups in ascending key order
RECURSIVE SortKeys(_)
SortKeys(S) ==
    IF S = {} THEN <<>>
    ELSE LET m == CHOOSE k \in S : \A j \in S : KeyLE(k, j)
         IN  <<m>> \o SortKeys(S \ {m})

\* 'sum': NaN cells are skipped
RECURSIVE AggSum(_, _)
AggSum(rows, col) ==
    IF rows = <<>> THEN 0
    ELSE (IF Head(rows)[col] = NaN THEN 0 ELSE Head(rows)[col])
         + AggSum(Tail(rows), col)

RECURSIVE FSum(_, _)
FSum(rows, col) ==
    IF rows = <<>> THEN FZero ELSE FAdd(Head(rows)[col], FSum(Tail(rows), col))

\* faulty variant: the rate columns reduced with 'sum'
AggMean_as_sum(rows, col) == FSum(rows, col)

\* 'mean' of a rate column over the rows of one group (never empty)
AggMean(rows, col) == FDivInt(FSum(rows, col), Len(rows))

GroupRow(rows, k) ==
    LET g == SelectSeq(rows, LAMBDA r : KeyOf(r) = k)
    IN  [Country      |-> k[1],
         WHORegion    |-> k[2],
         Confirmed    |-> AggSum(g, "Confirmed"),
         Deaths       |-> AggSum(g, "Deaths"),
         Recovered    |-> AggSum(g, "Recovered"),
         Active       |-> AggSum(g, "Active"),
         NewCases     |-> AggSum(g, "NewCases"),
         NewDeaths    |-> AggSum(g, "NewDeaths"),
         NewRecovered |-> AggSum(g, "NewRecovered"),
         CFR          |-> AggMean(g, "CFR"),
         RecoveryRate |-> AggMean(g, "RecoveryRate")]

groupby_agg(rows) ==
    LET keys == SortKeys(GroupKeys(rows))
    IN  [i \in 1..Len(keys) |-> GroupRow(rows, keys[i])]

----------------------------------------------------------------------------
(* Lines 32-74: the six chart builders. *)

nunique(rows) == Cardinality({rows[i].Country : i \in 1..Len(rows)})

\* the value nlargest orders by: a count column or a rate column
ColValue(row, col) ==
    IF col \in SumColumns THEN Frac(row[col], 1) ELSE row[col]

\* faulty variant: the first n rows, whatever their values
nlargest_as_head(n, col, rows) ==
    SubSeq(rows, 1, IF Len(rows) < n THEN Len(rows) ELSE n)

\* the largest value first; among equal values the earlier row (keep='first')
RECURSIVE PickLargest(_, _, _, _)
PickLargest(rows, idx, n, col) ==
    IF n = 0 \/ idx = {} THEN <<>>
    ELSE LET best == CHOOSE i \in idx : \A j \in idx :
                        /\ ~FLess(ColValue(rows[i], col), ColValue(rows[j], col))
                        /\ ColValue(rows[j], col) = ColValue(rows[i], col) => i <= j
         IN  <<rows[best]>> \o PickLargest(rows, idx \ {best}, n - 1, col)

nlargest(n, col, rows) == PickLargest(rows, 1..Len(rows), n, col)

LineTop == 5

BarTop == 10

KdePoints == 200

create_line_chart(rows) ==
    [chart |-> "line",
     title |-> "Top 5 Countries: Deaths and Confirmed Cases",
     rows  |-> IF nunique(rows) = 1 THEN rows
               ELSE nlargest(LineTop, "Deaths", rows)]

create_scatter_plot(rows) ==
    [chart |-> "scatter",
     title |-> "Confirmed vs Deaths with WHO Region Colors",
     rows  |-> rows]

create_bar_chart(rows) ==
    [chart |-> "bar",
     title |-> "Top 10 Countries by Recovery Rate",
     rows  |-> IF nunique(rows) = 1 THEN rows
               ELSE nlargest(BarTop, "RecoveryRate", rows)]

create_box_plot(rows) ==
    [chart |-> "box",
     title |-> "Deaths Distribution by WHO Region",
     rows  |-> rows]

create_faceted_plot(rows) ==
    [chart |-> "faceted",
     title |-> "New Cases vs New Deaths by WHO Region",
     rows  |-> rows]

\* data['CFR'].dropna().values
CfrVals(rows) ==
    LET kept == SelectSeq(rows, LAMBDA r : ~FIsNaN(r.CFR))
    IN  [i \in 1..Len(kept) |-> kept[i].CFR]

FMin(vals) ==
    CHOOSE v \in {vals[i] : i \in 1..Len(vals)} :
        \A i \in 1..Len(vals) : ~FLess(vals[i], v)

FMax(vals) ==
    CHOOSE v \in {vals[i] : i \in 1..Len(vals)} :
        \A i \in 1..Len(vals) : ~FLess(v, vals[i])

\* the exception gaussian_kde(vals) raises, "" when it raises none: it needs
\* more than one value, and values whose covariance is not singular
gaussian_kde(vals) ==
    IF Len(vals) <= 1 THEN "ValueError"
    ELSE IF \A i \in 1..Len(vals) : vals[i] = vals[1] THEN "LinAlgError"
    ELSE ""

InsufficientTitle == "Distribution of Case Fatality Rates (Insufficient Data)"

DensityTitle == "Distribution of Case Fatality Rates (Density Plot)"

\* lines 63-71: the estimate over np.linspace(min, max, 200)
DensityEstimate(cfr_vals) ==
    IF gaussian_kde(cfr_vals) # ""
    THEN [chart |-> "density", title |-> DensityTitle,
          raised |-> gaussian_kde(cfr_vals), x_range |-> <<>>, points |-> 0]
    ELSE [chart |-> "density", title |-> DensityTitle, raised |-> "",
          x_range |-> <<FMin(cfr_vals), FMax(cfr_vals)>>, points |-> KdePoints]

\* faulty variant: the guard is len(cfr_vals) > 0
create_density_plot_one(rows) ==
    LET cfr_vals == CfrVals(rows)
    IN  IF Len(cfr_vals) > 0
        THEN DensityEstimate(cfr_vals)
        ELSE [chart |-> "density", title |-> InsufficientTitle,
              raised |-> "", x_range |-> <<>>, points |-> 0]

\* faulty variant: no guard
create_density_plot_unguarded(rows) == DensityEstimate(CfrVals(rows))

create_density_plot(rows) ==
    LET cfr_vals == CfrVals(rows)
    IN  IF Len(cfr_vals) > 1
        THEN DensityEstimate(cfr_vals)
        ELSE [chart |-> "density", title |-> InsufficientTitle,
              raised |-> "", x_range |-> <<>>, points |-> 0]

----------------------------------------------------------------------------
(* Lines 135-153: update_charts. *)

\* faulty variant: the upper bound is exclusive
FilterRows_exclusive(table, country, range) ==
    LET in_range == SelectSeq(table,
            LAMBDA r : r.Deaths >= range[1] /\ r.Deaths < range[2])
    IN  IF country # All
        THEN SelectSeq(in_range, LAMBDA r : r.Country = country)
        ELSE in_range

\* lines 138-144
FilterRows(table, country, range) ==
    LET in_range == SelectSeq(table,
            LAMBDA r : r.Deaths >= range[1] /\ r.Deaths <= range[2])
    IN  IF country # All
        THEN SelectSeq(in_range, LAMBDA r : r.Country = country)
        ELSE in_range

\* lines 146-153: the six builders on the one filtered table
BuildAll(rows) ==
    <<create_line_chart(rows), create_scatter_plot(rows),
      create_bar_chart(rows), create_box_plot(rows),
      create_faceted_plot(rows), create_density_plot(rows)>>

\* a builder raised: the callback returns nothing
Raised(figs) == figs[6].raised # ""

----------------------------------------------------------------------------
(* The controls of the layout, lines 85-110. *)

Step == 1000

\* the values a handle of the RangeSlider can take: min + k*step, and max
SliderValues(max) == {k * Step : k \in 0..(max \div Step)} \cup {max}

SliderRanges(max) ==
    {<<lo, hi>> \in SliderValues(max) \X SliderValues(max) : lo <= hi}

DropdownValues(options) == {All} \cup {options[i] : i \in 1..Len(options)}

MaxDeaths(table) ==
    CHOOSE m \in {table[i].Deaths : i \in 1..Len(table)} :
        \A i \in 1..Len(table) : table[i].Deaths <= m

\* sorted(grouped_data['Country/Region'].unique())
RECURSIVE SortNames(_)
SortNames(S) ==
    IF S = {} THEN <<>>
    ELSE LET m == CHOOSE k \in S : \A j \in S : KeyRank(k) <= KeyRank(j)
         IN  <<m>> \o SortNames(S \ {m})

\* sorted() raises TypeError when it compares the integer 0 with a string
SortRaises(S) == KeyZero \in S /\ S # {KeyZero}

NoFigures == <<>>

\* grouped_data.to_csv("cleaned_covid19_data.csv", index=False)
to_csv(table) ==
    [header |-> <<"Country/Region", "WHO Region", "Confirmed", "Deaths",
                  "Recovered", "Active", "New cases", "New deaths",
                  "New recovered", "CFR", "RecoveryRate">>,
     lines  |-> table]

----------------------------------------------------------------------------
(* The csv tables of the model. *)

RawRow(country, region, counts) ==
    [Country      |-> country,
     WHORegion    |-> region,
     Confirmed    |-> counts[1],
     Deaths       |-> counts[2],
     Recovered    |-> counts[3],
     Active       |-> counts[4],
     NewCases     |-> counts[5],
     NewDeaths    |-> counts[6],
     NewRecovered |-> counts[7]]

\* Confirmed, Deaths, Recovered, Active, New cases, New deaths, New recovered
Counts ==
    << <<2000, 1000, 1000, 0, 10, 1, 2>>,       \* CFR 50, RecoveryRate 50
       <<3000, 1000, 2000, 0, 20, 2, 0>>,       \* CFR 100/3, RecoveryRate 200/3
       <<1000, 0, 1000, 0, 0, 0, 5>>,           \* no deaths: CFR 0
       <<NaN, 1500, NaN, NaN, NaN, NaN, NaN>> >> \* Confirmed missing

SmallKeys ==
    {<<CountryNames[2], RegionNames[1]>>, <<CountryNames[2], RegionNames[2]>>,
     <<CountryNames[3], RegionNames[1]>>, <<KeyNaN, RegionNames[1]>>,
     <<CountryNames[3], KeyNaN>>}

SmallRows ==
    {RawRow(k[1], k[2], Counts[p]) : k \in SmallKeys, p \in {1, 3, 4}}

SmallTables == UNION {[1..n -> SmallRows] : n \in 0..MaxRaw}

\* one row, every combination of a missing, zero and positive cell
CellTables ==
    {<<RawRow(CountryNames[1], RegionNames[1], <<c, d, r, a, 0, NaN, 1>>)>> :
        c \in {NaN, 0, 2000, 3000}, d \in {NaN, 0, 1000, 1500},
        r \in {NaN, 0, 1000, 2000}, a \in {NaN, 500}}

\* n rows of distinct keys (n countries, or one country in n regions), the
\* counts of row i being Counts[(a*i) mod Len(Counts) + 1]
WideTable(n, a, one_country) ==
    [i \in 1..n |->
        RawRow(IF one_country THEN CountryNames[1] ELSE CountryNames[i],
               IF one_country THEN RegionNames[i] ELSE RegionNames[1],
               Counts[((a * i) % Len(Counts)) + 1])]

WideTables ==
    {WideTable(n, a, o) : n \in 0..MaxWide, a \in 0..(Len(Counts) - 1),
                          o \in BOOLEAN}

----------------------------------------------------------------------------
(* The program. *)

\* after line 9, data = pd.read_csv(url)
Loaded(tables) ==
    /\ csv \in tables
    /\ data = csv
    /\ grouped_data = <<>>
    /\ cleaned_file = <<>>
    /\ country_options = <<>>
    /\ slider_max = 0
    /\ dropdown = All
    /\ slider = <<0, 0>>
    /\ filtered = <<>>
    /\ returned = <<>>
    /\ figures = NoFigures
    /\ pc = "fillna"

Init == Loaded(SmallTables \cup CellTables)

InitWide == Loaded(WideTables)

\* line 11
FillNa ==
    /\ pc = "fillna"
    /\ data' = [i \in 1..Len(data) |-> fillna(data[i])]
    /\ pc' = "cfr"
    /\ UNCHANGED <<csv, grouped_data, cleaned_file, country_options,
                   slider_max, dropdown, slider, filtered, returned, figures>>

\* line 13
AddCFR ==
    /\ pc = "cfr"
    /\ data' = [i \in 1..Len(data) |-> WithCFR(data[i])]
    /\ pc' = "recovery_rate"
    /\ UNCHANGED <<csv, grouped_data, cleaned_file, country_options,
                   slider_max, dropdown, slider, filtered, returned, figures>>

\* line 14
AddRecoveryRate ==
    /\ pc = "recovery_rate"
    /\ data' = [i \in 1..Len(data) |-> WithRecoveryRate(data[i])]
    /\ pc' = "groupby"
    /\ UNCHANGED <<csv, grouped_data, cleaned_file, country_options,
                   slider_max, dropdown, slider, filtered, returned, figures>>

\* lines 16-27
GroupBy ==
    /\ pc = "groupby"
    /\ grouped_data' = groupby_agg(data)
    /\ cleaned_file' = to_csv(grouped_data')
    /\ pc' = "options"
    /\ UNCHANGED <<csv, data, country_options, slider_max, dropdown, slider,
                   filtered, returned, figures>>

\* line 29
CountryOptions ==
    /\ pc = "options"
    /\ LET names == {grouped_data[i].Country : i \in 1..Len(grouped_data)}
       IN  IF SortRaises(names)
           THEN pc' = "crashed" /\ UNCHANGED country_options
           ELSE pc' = "layout" /\ country_options' = SortNames(names)
    /\ UNCHANGED <<csv, data, grouped_data, cleaned_file, slider_max,
                   dropdown, slider, filtered, returned, figures>>

\* lines 77-122; int(grouped_data['Deaths'].max()) raises on an empty table
Layout ==
    /\ pc = "layout"
    /\ IF grouped_data = <<>>
       THEN pc' = "crashed" /\ UNCHANGED <<slider_max, dropdown, slider>>
       ELSE /\ pc' = "serving"
            /\ slider_max' = MaxDeaths(grouped_data)
            /\ dropdown' = All
            /\ slider' = <<0, MaxDeaths(grouped_data)>>
    /\ UNCHANGED <<csv, data, grouped_data, cleaned_file, country_options,
                   filtered, returned, figures>>

\* faulty variant: the table is filtered in place
update_charts_inplace(selected_country, death_range) ==
    /\ pc = "serving"
    /\ dropdown' = selected_country
    /\ slider' = death_range
    /\ filtered' = FilterRows(grouped_data, selected_country, death_range)
    /\ grouped_data' = filtered'
    /\ returned' = BuildAll(filtered')
    /\ figures' = IF Raised(returned') THEN figures ELSE returned'
    /\ UNCHANGED <<csv, data, cleaned_file, country_options, slider_max, pc>>

\* faulty variant: the box plot is built from the whole table
update_charts_box_unfiltered(selected_country, death_range) ==
    /\ pc = "serving"
    /\ dropdown' = selected_country
    /\ slider' = death_range
    /\ filtered' = FilterRows(grouped_data, selected_country, death_range)
    /\ returned' = [BuildAll(filtered') EXCEPT
                        ![4] = create_box_plot(grouped_data)]
    /\ figures' = IF Raised(returned') THEN figures ELSE returned'
    /\ UNCHANGED <<csv, data, grouped_data, cleaned_file, country_options,
                   slider_max, pc>>

\* lines 125-153: a control takes a value and the callback runs with the
\* values of both; when a builder raises, the six figures stay as they are
update_charts(selected_country, death_range) ==
    /\ pc = "serving"
    /\ dropdown' = selected_country
    /\ slider' = death_range
    /\ filtered' = FilterRows(grouped_data, selected_country, death_range)
    /\ returned' = BuildAll(filtered')
    /\ figures' = IF Raised(returned') THEN figures ELSE returned'
    /\ UNCHANGED <<csv, data, grouped_data, cleaned_file, country_options,
                   slider_max, pc>>

ControlChange ==
    \E selected_country \in DropdownValues(country_options),
       death_range \in SliderRanges(slider_max) :
        update_charts(selected_country, death_range)

Next ==
    \/ FillNa
    \/ AddCFR
    \/ AddRecoveryRate
    \/ GroupBy
    \/ CountryOptions
    \/ Layout
    \/ ControlChange

Spec == Init /\ [][Next]_vars

SpecWide == InitWide /\ [][Next]_vars

----------------------------------------------------------------------------
(* The claims. *)

\* both rate columns exist
RatesDone == pc \notin {"fillna", "cfr", "recovery_rate"}

\* groupby has run
Grouped == pc \in {"options", "layout", "serving", "crashed"}

\* update_charts has run at least once
Called == returned # <<>>

\* the fraction x has the value (a / b) * 100, b > 0
IsPercent(x, a, b) == x.d > 0 /\ x.n * b = a * 100 * x.d

\* a csv cell with a missing value read as 0
Cell(v) == IF v = NaN THEN 0 ELSE v

\* C4: for every raw row, CFR is 0 when Confirmed = 0 and Deaths/Confirmed*100
\* otherwise, RecoveryRate is 0 when Confirmed = 0 and Recovered/Confirmed*100
\* otherwise, a missing Confirmed, Deaths or Recovered cell counting as 0.
C4_Rates ==
    RatesDone =>
        /\ Len(data) = Len(csv)
        /\ \A i \in 1..Len(csv) :
            LET c == Cell(csv[i].Confirmed)
                d == Cell(csv[i].Deaths)
                r == Cell(csv[i].Recovered)
            IN  /\ data[i].Confirmed = c /\ data[i].Deaths = d
                /\ data[i].Recovered = r
                /\ IF c = 0
                   THEN data[i].CFR = [n |-> 0, d |-> 1]
                        /\ data[i].RecoveryRate = [n |-> 0, d |-> 1]
                   ELSE IsPercent(data[i].CFR, d, c)
                        /\ IsPercent(data[i].RecoveryRate, r, c)

\* a row with Confirmed missing and Deaths present, and a row with CFR 50
C4_Witness ==
    /\ pc = "groupby"
    /\ \E i, j \in 1..Len(csv) :
        /\ csv[i].Confirmed = NaN /\ csv[i].Deaths = 1500
        /\ data[i].CFR = [n |-> 0, d |-> 1]
        /\ csv[j].Confirmed = 2000 /\ data[j].CFR = [n |-> 50, d |-> 1]

\* the rows of data with key k
RowsOfKey(k) == {i \in 1..Len(data) : <<data[i].Country, data[i].WHORegion>> = k}

RECURSIVE SumOver(_, _)
SumOver(I, col) ==
    IF I = {} THEN 0
    ELSE LET i == CHOOSE x \in I : TRUE
         IN  data[i][col] + SumOver(I \ {i}, col)

\* the sum of a rate column over the rows I, as numerator over the common
\* denominator 6000 (the denominator of every rate of the tables divides it)
RECURSIVE RateSumOver(_, _)
RateSumOver(I, col) ==
    IF I = {} THEN 0
    ELSE LET i == CHOOSE x \in I : TRUE
         IN  (data[i][col].n * (6000 \div data[i][col].d))
             + RateSumOver(I \ {i}, col)

\* C5: the aggregated row of every (Country/Region, WHO Region) pair of the
\* cleaned table holds the sums of the seven count columns over the raw rows
\* of the pair, and the arithmetic means of their CFR and RecoveryRate.
C5_SumsAndMeans ==
    Grouped =>
        /\ \A i \in 1..Len(data) : \E j \in 1..Len(grouped_data) :
            /\ grouped_data[j].Country = data[i].Country
            /\ grouped_data[j].WHORegion = data[i].WHORegion
        /\ \A j \in 1..Len(grouped_data) :
            LET g == grouped_data[j]
                I == RowsOfKey(<<g.Country, g.WHORegion>>)
            IN  /\ I # {}
                /\ \A col \in SumColumns : g[col] = SumOver(I, col)
                /\ \A col \in {"CFR", "RecoveryRate"} :
                    /\ g[col].d > 0
                    /\ g[col].n * 6000 * Cardinality(I)
                         = RateSumOver(I, col) * g[col].d

\* two raw rows of one pair: Deaths 1000 + 1500, CFR (50 + 0) / 2
C5_Witness ==
    /\ pc = "options"
    /\ \E j \in 1..Len(grouped_data) :
        /\ Cardinality(RowsOfKey(<<grouped_data[j].Country,
                                   grouped_data[j].WHORegion>>)) = 2
        /\ grouped_data[j].Deaths = 2500
        /\ grouped_data[j].CFR = [n |-> 25, d |-> 1]

\* the pairs of the csv table, a missing key cell read as the filled 0
CsvPairs ==
    {<<IF csv[i].Country = KeyNaN THEN KeyZero ELSE csv[i].Country,
       IF csv[i].WHORegion = KeyNaN THEN KeyZero ELSE csv[i].WHORegion>> :
        i \in 1..Len(csv)}

\* C10: the aggregated table holds exactly one row per distinct pair of the
\* raw table, pairs with a filled key cell included, so it has no more rows
\* than the raw table.
C10_OneRowPerPair ==
    Grouped =>
        /\ {<<grouped_data[j].Country, grouped_data[j].WHORegion>> :
                j \in 1..Len(grouped_data)} = CsvPairs
        /\ Len(grouped_data) = Cardinality(CsvPairs)
        /\ Len(grouped_data) <= Len(csv)

\* a missing Country/Region cell, filled, is a pair of its own
C10_Witness ==
    /\ pc = "options"
    /\ Len(csv) = 2
    /\ csv[1].Country = KeyNaN
    /\ csv[2].Country # KeyNaN
    /\ Len(grouped_data) = 2
    /\ grouped_data[1].Country = KeyZero

\* the rows of grouped_data the controls select
Selected ==
    {j \in 1..Len(grouped_data) :
        /\ slider[1] <= grouped_data[j].Deaths
        /\ grouped_data[j].Deaths <= slider[2]
        /\ dropdown = All \/ grouped_data[j].Country = dropdown}

\* C1: the table update_charts filters is exactly the aggregated rows r with
\* min <= r.Deaths <= max (both inclusive) and (selection = 'all' or
\* r.Country/Region = selection): no other row, and every such row once.
C1_FilterExact ==
    Called =>
        /\ \A i \in 1..Len(filtered) :
            \E j \in Selected : grouped_data[j] = filtered[i]
        /\ \A j \in Selected :
            \E i \in 1..Len(filtered) : filtered[i] = grouped_data[j]
        /\ Len(filtered) = Cardinality(Selected)

\* a row on the upper bound is kept, a row above it is dropped
C1_Witness ==
    /\ Called
    /\ dropdown = All
    /\ Len(grouped_data) = 2
    /\ Len(filtered) = 1
    /\ filtered[1].Deaths = slider[2]
    /\ \E j \in 1..2 : grouped_data[j].Deaths > slider[2]

\* the distinct CFR values of the filtered table
DistinctCFR == {filtered[i].CFR : i \in 1..Len(filtered)}

\* C2: create_density_plot returns the 'Insufficient Data' placeholder whenever
\* the filtered table holds fewer than 2 distinct CFR values, and attempts
\* the density estimate only when it holds at least 2.
C2_PlaceholderBelowTwoDistinct ==
    Called =>
        /\ Cardinality(DistinctCFR) < 2 =>
            returned[6].title = InsufficientTitle /\ returned[6].raised = ""
        /\ returned[6].title = DensityTitle => Cardinality(DistinctCFR) >= 2

\* the value nlargest compares, read off the row
KeyValue(row, col) == IF col = "Deaths" THEN [n |-> row.Deaths, d |-> 1] ELSE row[col]

\* `plotted` is the n rows of the filtered table with the highest col
IsTop(plotted, n, col) ==
    LET P == {plotted[i] : i \in 1..Len(plotted)}
        F == {filtered[i] : i \in 1..Len(filtered)}
    IN  /\ Len(plotted) <= n
        /\ Len(plotted) = (IF Len(filtered) < n THEN Len(filtered) ELSE n)
        /\ Cardinality(P) = Len(plotted)
        /\ P \subseteq F
        /\ \A u \in F \ P : \A p \in P :
            KeyValue(u, col).n * KeyValue(p, col).d
                <= KeyValue(p, col).n * KeyValue(u, col).d

\* C3: with exactly 1 distinct country in the filtered table the line and the
\* bar chart plot all its rows; with 2 or more the line chart plots at most 5
\* rows, those with the highest Deaths, and the bar chart at most 10, those
\* with the highest RecoveryRate.
C3_TopRows ==
    Called =>
        LET countries == {filtered[i].Country : i \in 1..Len(filtered)}
        IN  /\ Cardinality(countries) = 1 =>
                returned[1].rows = filtered /\ returned[3].rows = filtered
            /\ Cardinality(countries) >= 2 =>
                /\ IsTop(returned[1].rows, 5, "Deaths")
                /\ IsTop(returned[3].rows, 10, "RecoveryRate")

\* more than 10 countries: 5 and 10 rows plotted, rows of fewer deaths left out
C3_Witness ==
    /\ Called
    /\ Len(filtered) > 10
    /\ Len(returned[1].rows) = 5
    /\ Len(returned[3].rows) = 10
    /\ \E i \in 1..Len(filtered) :
        /\ filtered[i].Deaths < returned[1].rows[5].Deaths
        /\ \A k \in 1..5 : returned[1].rows[k] # filtered[i]

\* a country of the table is selected with the range [0, max(Deaths)]
CountryFullRange ==
    /\ Called
    /\ dropdown # All
    /\ slider = <<0, slider_max>>

\* C6 as stated: selecting a country of the aggregated table with the range
\* [0, max(Deaths)] returns exactly one aggregated row, and all six builders
\* return a chart.
C6_ExactlyOneRow ==
    CountryFullRange =>
        /\ Len(filtered) = 1
        /\ Len(returned) = 6 /\ ~Raised(returned)

\* C6, amended: selecting a country of the aggregated table with the range
\* [0, max(Deaths)] returns exactly that country's aggregated rows, one per
\* WHO Region it occurs with; when that is one row, all six builders return
\* a chart and the six are displayed.
C6_CountryRows ==
    CountryFullRange =>
        LET mine == {j \in 1..Len(grouped_data) :
                        grouped_data[j].Country = dropdown}
        IN  /\ mine # {}
            /\ Len(filtered) = Cardinality(mine)
            /\ \A j \in mine :
                \E i \in 1..Len(filtered) : filtered[i] = grouped_data[j]
            /\ Len(filtered) = 1 =>
                /\ Len(returned) = 6 /\ ~Raised(returned)
                /\ returned[6].title = InsufficientTitle
                /\ \A k \in 1..5 : returned[k].rows = filtered
                /\ figures = returned

\* one country of two is selected over the full range
C6_Witness ==
    /\ CountryFullRange
    /\ Len(grouped_data) = 2
    /\ Len(filtered) = 1
    /\ figures = returned

\* C7: when the selection and the range match no aggregated row the filtered
\* table is empty and update_charts returns six charts: the line and the bar
\* builder select zero rows, the density builder returns the placeholder,
\* no builder raises.
C7_EmptyTable ==
    Called /\ Selected = {} =>
        /\ filtered = <<>>
        /\ Len(returned) = 6 /\ ~Raised(returned)
        /\ \A k \in 1..5 : returned[k].rows = <<>>
        /\ returned[6].title = InsufficientTitle
        /\ figures = returned

\* the range [0, 0] when no country has zero deaths
C7_Witness ==
    /\ Called
    /\ slider = <<0, 0>>
    /\ dropdown = All
    /\ grouped_data # <<>>
    /\ \A j \in 1..Len(grouped_data) : grouped_data[j].Deaths > 0
    /\ filtered = <<>>

\* C8: after any sequence of control changes grouped_data is the table
\* computed at startup, and what update_charts returns is determined by the
\* current selection and range alone.
C8_TableUnchanged ==
    pc = "serving" =>
        /\ grouped_data = groupby_agg(data)
        /\ cleaned_file.lines = grouped_data
        /\ Called =>
            returned = BuildAll(FilterRows(groupby_agg(data), dropdown, slider))

\* a call that filtered rows away has returned
C8_Witness ==
    /\ pc = "serving"
    /\ Called
    /\ dropdown # All
    /\ Len(filtered) >= 1
    /\ Len(filtered) < Len(grouped_data)

====
